---- MODULE Spec2Model ----
(***************************************************************************)
(* Model of embedding_server.py: a Flask service keeping a FAISS flat L2   *)
(* index, a document map, a row-order list and a vector cache, and         *)
(* persisting them to two files after every mutation.                      *)
(*                                                                         *)
(* Each request handler is modelled as the sequence of its statements      *)
(* that touch the module globals (index, state) or the two files.  One     *)
(* operator per statement takes the globals g and the handler's frame f    *)
(* (arguments, locals, program counter) and returns the pair after the     *)
(* statement.  Spec runs a whole handler in one action (requests handled   *)
(* one at a time); SpecConc runs the same statements one per step on       *)
(* several threads, as the threaded development server does.               *)
(***************************************************************************)
EXTENDS Integers, Sequences, FiniteSets, TLC

VARIABLES
    index,        \* rows of the FAISS IndexFlatL2, in row order
    documents,    \* state["documents"]: ordered dict id -> [text, metadata]
    id_list,      \* state["id_list"]
    embeddings,   \* state["embeddings"]: ordered dict id -> vector
    index_file,   \* faiss_data/faiss_index.bin
    state_file,   \* faiss_data/state.json
    frames,       \* per worker thread: the request being handled
    resp,         \* the last response sent
    failures,     \* environment failures (encoder, file system) so far
    accepted      \* requests given to worker threads so far

vars == <<index, documents, id_list, embeddings, index_file, state_file, frames, resp,
          failures, accepted>>

(***************************************************************************)
(* Bounds.                                                                 *)
(***************************************************************************)
MaxRows == 2        \* requests that would grow the index past this are not issued
MaxBatch == 2       \* longest add-batch request
MaxFailures == 1    \* environment failures in one run
MaxThreads == 2     \* worker threads of SpecConc
MaxConcRows == 2    \* as MaxRows, for SpecConc
MaxRequests == 3
\* failed file writes in one run of SpecPersist
MaxWriteFailures == 2    \* requests served in one run of SpecConc

(***************************************************************************)
(* Program constants.                                                      *)
(***************************************************************************)
EMBEDDING_DIM == 384
DefaultTopK == 5

(***************************************************************************)
(* JSON values.  An id arrives as a JSON value: a string or a number.      *)
(* Python keeps 7 and "7" apart as dict keys.  A missing key reads as      *)
(* None through data.get and raises KeyError through d[...].               *)
(***************************************************************************)
StrA == <<"str", "a">>
Str7 == <<"str", "7">>
Int7 == <<"int", "7">>
AbsentId == <<"absent", "">>
Ids == {StrA, Str7, Int7}

AbsentText == "<absent>"
Texts == {"cats", "dogs"}

EmptyMeta == <<>>
TitledMeta == << <<"title", "Felines">> >>

\* the text and metadata of the documents clients send
Payloads == {[text |-> "cats", metadata |-> TitledMeta], [text |-> "dogs", metadata |-> EmptyMeta]}

(***************************************************************************)
(* Python dict: insertion-ordered, unique keys.  A sequence of             *)
(* <<key, value>> pairs.                                                   *)
(***************************************************************************)
DictKeys(d) == {d[i][1] : i \in 1..Len(d)}

DictKeyList(d) == [i \in 1..Len(d) |-> d[i][1]]

DictHas(d, k) == \E i \in 1..Len(d) : d[i][1] = k

DictGet(d, k) == d[CHOOSE i \in 1..Len(d) : d[i][1] = k][2]

DictGetDefault(d, k, dflt) == IF DictHas(d, k) THEN DictGet(d, k) ELSE dflt

\* d[k] = v : an existing key keeps its position, a new key goes last
DictPut(d, k, v) ==
    IF DictHas(d, k)
    THEN [i \in 1..Len(d) |-> IF d[i][1] = k THEN <<k, v>> ELSE d[i]]
    ELSE Append(d, <<k, v>>)

\* del d[k], for a key that is present
DictDel(d, k) ==
    LET p == CHOOSE i \in 1..Len(d) : d[i][1] = k
    IN [i \in 1..(Len(d) - 1) |-> IF i < p THEN d[i] ELSE d[i + 1]]

(***************************************************************************)
(* Python list.                                                            *)
(***************************************************************************)
ListHas(s, x) == \E i \in 1..Len(s) : s[i] = x

\* s.remove(x), for an x that occurs: removes the first occurrence
ListRemove(s, x) ==
    LET p == CHOOSE i \in 1..Len(s) : s[i] = x /\ \A j \in 1..(i - 1) : s[j] # x
    IN [i \in 1..(Len(s) - 1) |-> IF i < p THEN s[i] ELSE s[i + 1]]

Count(s, x) == Cardinality({i \in 1..Len(s) : s[i] = x})

(***************************************************************************)
(* The encoder and FAISS.  Vectors are modelled with two integer           *)
(* coordinates; the encoder is a fixed table from framed text to an        *)
(* axis-aligned vector of arbitrary length, on which L2 normalisation is   *)
(* exact.                                                                  *)
(***************************************************************************)
Abs(x) == IF x < 0 THEN -x ELSE x

\* model.encode([framing + text]): the framing is part of the encoded string
Encode(framing, text) ==
    CASE framing = "passage: " /\ text = "cats" -> <<3, 0>>
      [] framing = "passage: " /\ text = "dogs" -> <<0, 2>>
      [] framing = "query: " /\ text = "cats" -> <<2, 0>>
      [] framing = "query: " /\ text = "dogs" -> <<0, -4>>
      [] OTHER -> <<0, 0>>

\* faiss.normalize_L2: divides by the norm; a zero vector is left as it is
NormalizeL2(v) ==
    LET n == Abs(v[1]) + Abs(v[2])
    IN IF n = 0 THEN v ELSE <<v[1] \div n, v[2] \div n>>

\* the squared L2 distance IndexFlatL2 reports
L2Sqr(u, v) == (u[1] - v[1]) * (u[1] - v[1]) + (u[2] - v[2]) * (u[2] - v[2])

\* index.search(q, k): k entries, nearest first, ties by row; -1 pads a short index
IndexSearch(rows, q, k) ==
    LET Before(i, j) == \/ L2Sqr(rows[i], q) < L2Sqr(rows[j], q)
                        \/ (L2Sqr(rows[i], q) = L2Sqr(rows[j], q) /\ i < j)
        Rank(i) == 1 + Cardinality({j \in 1..Len(rows) : Before(j, i)})
    IN [n \in 1..k |->
          IF n <= Len(rows)
          THEN LET r == CHOOSE i \in 1..Len(rows) : Rank(i) = n
               IN [row |-> r - 1, dist |-> L2Sqr(rows[r], q)]
          ELSE [row |-> -1, dist |-> -1]]

(***************************************************************************)
(* The two files.                                                          *)
(***************************************************************************)
EmptyState == [documents |-> <<>>, id_list |-> <<>>, embeddings |-> <<>>]

NoIndexFile == [exists |-> FALSE, ok |-> FALSE, rows |-> <<>>]
TruncatedIndexFile == [exists |-> TRUE, ok |-> FALSE, rows |-> <<>>]
NoStateFile == [exists |-> FALSE, ok |-> FALSE, json |-> EmptyState]
TruncatedStateFile == [exists |-> TRUE, ok |-> FALSE, json |-> EmptyState]

\* json.dump writes every dict key as a string: 7 and "7" are both written "7"
JsonKey(k) == <<"str", k[2]>>

JsonDumpDict(d) == [i \in 1..Len(d) |-> <<JsonKey(d[i][1]), d[i][2]>>]

\* json.load builds the dict pair by pair: a repeated key keeps its first
\* position and its last value
RECURSIVE JsonLoadDict(_)
JsonLoadDict(pairs) ==
    IF pairs = <<>> THEN <<>>
    ELSE LET n == Len(pairs)
         IN DictPut(JsonLoadDict(SubSeq(pairs, 1, n - 1)), pairs[n][1], pairs[n][2])

JsonDump(st) ==
    [documents |-> JsonDumpDict(st.documents),
     id_list |-> st.id_list,
     embeddings |-> JsonDumpDict(st.embeddings)]

JsonLoad(js) ==
    [documents |-> JsonLoadDict(js.documents),
     id_list |-> js.id_list,
     embeddings |-> JsonLoadDict(js.embeddings)]

(***************************************************************************)
(* Frames.  g is the record of the globals and files, f the frame of one   *)
(* request: its arguments, the point where the environment fails it        *)
(* (fail), its locals, and its answer.                                     *)
(***************************************************************************)
Failures == {"none", "encode", "write_index", "open_state", "dump_state"}

NewFrame(op, pc, id, text, metadata, docs, query, top_k, fail) ==
    [op |-> op, pc |-> pc, id |-> id, text |-> text, metadata |-> metadata,
     docs |-> docs, query |-> query, top_k |-> top_k, fail |-> fail,
     emb |-> <<>>, i |-> 0, hits |-> <<>>, results |-> <<>>,
     status |-> 0, added |-> 0, total |-> 0, embedding_dim |-> 0, failed |-> FALSE]

IdleFrame == NewFrame("idle", "idle", AbsentId, AbsentText, EmptyMeta, <<>>, AbsentText, <<>>, "none")

Globals ==
    [index |-> index, documents |-> documents, id_list |-> id_list,
     embeddings |-> embeddings, index_file |-> index_file, state_file |-> state_file]

Goto(g, f, pc) == [g |-> g, f |-> [f EXCEPT !.pc = pc]]

\* return jsonify(...), status
Return(g, f, status) == [g |-> g, f |-> [f EXCEPT !.pc = "done", !.status = status]]

\* the environment raised: the handler logs and answers 500
Raise(g, f) == Return(g, [f EXCEPT !.failed = TRUE], 500)

\* what the client receives
Response(f) ==
    [op |-> f.op, status |-> f.status, id |-> f.id, results |-> f.results,
     added |-> f.added, total |-> f.total, embedding_dim |-> f.embedding_dim]

(***************************************************************************)
(* save_state, called last by every mutating handler.                      *)
(***************************************************************************)
\* faiss.write_index(index, INDEX_FILE)
save_index(g, f) ==
    IF f.fail = "write_index"
    THEN Raise([g EXCEPT !.index_file = TruncatedIndexFile], f)
    ELSE Goto([g EXCEPT !.index_file = [exists |-> TRUE, ok |-> TRUE, rows |-> g.index]],
              f, "save_json")

\* with open(STATE_FILE, 'w') as f: json.dump(state, f), then the handler's return
\* save_state catches the failure of the write and the handler carries on
save_json_swallows(g, f) ==
    LET st == [documents |-> g.documents, id_list |-> g.id_list,
               embeddings |-> g.embeddings]
        g2 == IF f.fail = "open_state" THEN g
              ELSE IF f.fail = "dump_state"
              THEN [g EXCEPT !.state_file = TruncatedStateFile]
              ELSE [g EXCEPT !.state_file = [exists |-> TRUE, ok |-> TRUE,
                                             json |-> JsonDump(st)]]
    IN IF f.op = "add_batch" THEN Goto(g2, f, "batch_return")
       ELSE Return(g2, f, 200)

save_json(g, f) ==
    IF f.fail = "open_state" THEN Raise(g, f)
    ELSE IF f.fail = "dump_state"
    THEN Raise([g EXCEPT !.state_file = TruncatedStateFile], f)
    ELSE LET st == [documents |-> g.documents, id_list |-> g.id_list,
                    embeddings |-> g.embeddings]
             g2 == [g EXCEPT !.state_file = [exists |-> TRUE, ok |-> TRUE, json |-> JsonDump(st)]]
         IN IF f.op = "add_batch" THEN Goto(g2, f, "batch_return")
            ELSE Return(g2, f, 200)

(***************************************************************************)
(* POST /index/add                                                         *)
(***************************************************************************)
\* the embedding is computed before the request is validated
add_encode_unvalidated(g, f) ==
    IF f.fail = "encode" THEN Raise(g, f)
    ELSE IF f.id = AbsentId \/ f.text = AbsentText THEN Return(g, f, 400)
    ELSE Goto(g, [f EXCEPT !.emb = <<NormalizeL2(Encode("passage: ", f.text))>>], "add_index")

add_encode(g, f) ==
    IF f.id = AbsentId \/ f.text = AbsentText THEN Return(g, f, 400)
    ELSE IF f.fail = "encode" THEN Raise(g, f)
    ELSE Goto(g, [f EXCEPT !.emb = <<NormalizeL2(Encode("passage: ", f.text))>>], "add_index")

add_index(g, f) ==
    Goto([g EXCEPT !.index = @ \o f.emb], f, "add_put_document")

add_put_document(g, f) ==
    Goto([g EXCEPT !.documents = DictPut(@, f.id, [text |-> f.text, metadata |-> f.metadata])],
         f, "add_append_id")

add_append_id(g, f) == Goto([g EXCEPT !.id_list = Append(@, f.id)], f, "add_cache_vector")

add_cache_vector(g, f) ==
    Goto([g EXCEPT !.embeddings = DictPut(@, f.id, f.emb[1])], f, "save_index")

(***************************************************************************)
(* POST /index/add-batch                                                   *)
(***************************************************************************)
\* without the early return for an empty list: nothing to encode, the loop
\* body never runs, save_state is called
batch_encode_no_early_return(g, f) ==
    IF f.docs = <<>> THEN Goto(g, f, "save_index")
    ELSE IF \E i \in 1..Len(f.docs) : f.docs[i].text = AbsentText THEN Return(g, f, 500)
    ELSE IF f.fail = "encode" THEN Raise(g, f)
    ELSE Goto(g, [f EXCEPT !.emb = [i \in 1..Len(f.docs) |->
                                      NormalizeL2(Encode("passage: ", f.docs[i].text))]],
              "batch_index")

batch_encode(g, f) ==
    IF f.docs = <<>> THEN Return(g, f, 200)
    ELSE IF \E i \in 1..Len(f.docs) : f.docs[i].text = AbsentText THEN Return(g, f, 500)
    ELSE IF f.fail = "encode" THEN Raise(g, f)
    ELSE Goto(g, [f EXCEPT !.emb = [i \in 1..Len(f.docs) |->
                                      NormalizeL2(Encode("passage: ", f.docs[i].text))]],
              "batch_index")

batch_index(g, f) ==
    Goto([g EXCEPT !.index = @ \o f.emb], [f EXCEPT !.i = 1], "batch_put_document")

batch_put_document(g, f) ==
    LET doc == f.docs[f.i]
    IN IF doc.id = AbsentId THEN Return(g, f, 500)
       ELSE Goto([g EXCEPT !.documents =
                     DictPut(@, doc.id, [text |-> doc.text, metadata |-> doc.metadata])],
                 f, "batch_append_id")

batch_append_id(g, f) ==
    Goto([g EXCEPT !.id_list = Append(@, f.docs[f.i].id)], f, "batch_cache_vector")

batch_cache_vector(g, f) ==
    LET g2 == [g EXCEPT !.embeddings = DictPut(@, f.docs[f.i].id, f.emb[f.i])]
    IN IF f.i < Len(f.docs)
       THEN Goto(g2, [f EXCEPT !.i = @ + 1], "batch_put_document")
       ELSE Goto(g2, f, "save_index")

batch_return(g, f) ==
    Return(g, [f EXCEPT !.added = Len(f.docs), !.total = Len(g.id_list)], 200)

(***************************************************************************)
(* POST /index/search                                                      *)
(***************************************************************************)
TopK(f) == IF f.top_k = <<>> THEN DefaultTopK ELSE f.top_k[1]

search_encode(g, f) ==
    IF f.query = AbsentText THEN Return(g, f, 400)
    ELSE IF f.fail = "encode" THEN Raise(g, f)
    ELSE Goto(g, [f EXCEPT !.emb = <<NormalizeL2(Encode("query: ", f.query))>>], "search_ntotal")

search_ntotal(g, f) ==
    IF Len(g.index) = 0 THEN Return(g, f, 200) ELSE Goto(g, f, "search_index")

\* index.search raises on k <= 0
search_index(g, f) ==
    IF TopK(f) <= 0 THEN Return(g, f, 500)
    ELSE Goto(g, [f EXCEPT !.hits = IndexSearch(g.index, f.emb[1], TopK(f)), !.i = 1],
              "search_map")

\* one round of the loop over indices[0]
search_map(g, f) ==
    LET hit == f.hits[f.i]
        skip == hit.row = -1 \/ hit.row >= Len(g.id_list)
        doc_id == g.id_list[hit.row + 1]
        doc == DictGet(g.documents, doc_id)
        f2 == IF skip THEN f
              ELSE [f EXCEPT !.results = Append(@, [id |-> doc_id, score |-> hit.dist,
                                                     text |-> doc.text,
                                                     metadata |-> doc.metadata])]
    IN IF ~skip /\ ~DictHas(g.documents, doc_id) THEN Return(g, f, 500)
       ELSE IF f.i < Len(f.hits) THEN Goto(g, [f2 EXCEPT !.i = @ + 1], "search_map")
       ELSE Return(g, f2, 200)

(***************************************************************************)
(* GET /index/documents, GET /index/stats, GET /health                     *)
(***************************************************************************)
DocumentView(id, data) ==
    [id |-> id,
     title |-> DictGetDefault(data.metadata, "title", "Untitled"),
     content |-> DictGetDefault(data.metadata, "content", data.text),
     category |-> DictGetDefault(data.metadata, "category", "General"),
     createdBy |-> DictGetDefault(data.metadata, "createdBy", "System")]

get_documents_view(g, f) ==
    Return(g, [f EXCEPT !.results = [i \in 1..Len(g.documents) |->
                                       DocumentView(g.documents[i][1], g.documents[i][2])]],
           200)

stats_read(g, f) ==
    Return(g, [f EXCEPT !.total = Len(g.index), !.embedding_dim = EMBEDDING_DIM], 200)

health_reply(g, f) == Return(g, f, 200)

(***************************************************************************)
(* POST /index/clear                                                       *)
(***************************************************************************)
clear_new_index(g, f) == Goto([g EXCEPT !.index = <<>>], f, "clear_new_state")

\* only the document map is emptied
clear_documents_only(g, f) ==
    Goto([g EXCEPT !.documents = <<>>], f, "save_index")

clear_new_state(g, f) ==
    Goto([g EXCEPT !.documents = <<>>, !.id_list = <<>>, !.embeddings = <<>>], f, "save_index")

(***************************************************************************)
(* DELETE /index/document/<doc_id>                                         *)
(***************************************************************************)
delete_check(g, f) ==
    IF ~DictHas(g.documents, f.id) THEN Return(g, f, 404)
    ELSE Goto(g, f, "delete_del_document")

delete_del_document(g, f) ==
    IF ~DictHas(g.documents, f.id) THEN Return(g, f, 500)
    ELSE Goto([g EXCEPT !.documents = DictDel(@, f.id)], f, "delete_remove_id")

delete_remove_id(g, f) ==
    IF ~ListHas(g.id_list, f.id) THEN Return(g, f, 500)
    ELSE Goto([g EXCEPT !.id_list = ListRemove(@, f.id)], f, "delete_del_vector")

delete_del_vector(g, f) ==
    IF ~DictHas(g.embeddings, f.id) THEN Return(g, f, 500)
    ELSE Goto([g EXCEPT !.embeddings = DictDel(@, f.id)], f, "delete_new_index")

delete_new_index(g, f) == Goto([g EXCEPT !.index = <<>>], f, "delete_gather")

\* vectors = [state["embeddings"][i] for i in state["id_list"]]
delete_gather(g, f) ==
    IF g.id_list = <<>> THEN Goto(g, f, "save_index")
    ELSE IF \E i \in 1..Len(g.id_list) : ~DictHas(g.embeddings, g.id_list[i])
    THEN Return(g, f, 500)
    ELSE Goto(g, [f EXCEPT !.emb = [i \in 1..Len(g.id_list) |->
                                      DictGet(g.embeddings, g.id_list[i])]],
              "delete_add")

delete_add(g, f) ==
    Goto([g EXCEPT !.index = @ \o f.emb], f, "save_index")

(***************************************************************************)
(* Startup: init_faiss.                                                    *)
(***************************************************************************)
\* index = faiss.IndexFlatL2(EMBEDDING_DIM); state = {...}: the else branch
\* and the except clause
init_empty(g) ==
    [g EXCEPT !.index = <<>>, !.documents = <<>>, !.id_list = <<>>, !.embeddings = <<>>]

\* the except clause resets the state and keeps the index that was read
init_empty_keeps_index(g) ==
    [g EXCEPT !.documents = <<>>, !.id_list = <<>>, !.embeddings = <<>>]

\* except Exception: the load of either file raised
init_load_failed(g) == init_empty(g)

\* index = faiss.read_index(INDEX_FILE), then state = json.load(f); either may raise
init_faiss(g) ==
    IF g.index_file.exists /\ g.state_file.exists
    THEN IF ~g.index_file.ok THEN init_load_failed(g)
         ELSE LET g1 == [g EXCEPT !.index = g.index_file.rows]
              IN IF ~g.state_file.ok THEN init_load_failed(g1)
                 ELSE LET st == JsonLoad(g.state_file.json)
                      IN [g1 EXCEPT !.documents = st.documents, !.id_list = st.id_list,
                                    !.embeddings = st.embeddings]
    ELSE init_empty(g)

(***************************************************************************)
(* Running a handler.                                                      *)
(***************************************************************************)
\* the statement at f.pc
Step(g, f) ==
    CASE f.pc = "add_encode" -> add_encode(g, f)
      [] f.pc = "add_index" -> add_index(g, f)
      [] f.pc = "add_put_document" -> add_put_document(g, f)
      [] f.pc = "add_append_id" -> add_append_id(g, f)
      [] f.pc = "add_cache_vector" -> add_cache_vector(g, f)
      [] f.pc = "batch_encode" -> batch_encode(g, f)
      [] f.pc = "batch_index" -> batch_index(g, f)
      [] f.pc = "batch_put_document" -> batch_put_document(g, f)
      [] f.pc = "batch_append_id" -> batch_append_id(g, f)
      [] f.pc = "batch_cache_vector" -> batch_cache_vector(g, f)
      [] f.pc = "batch_return" -> batch_return(g, f)
      [] f.pc = "search_encode" -> search_encode(g, f)
      [] f.pc = "search_ntotal" -> search_ntotal(g, f)
      [] f.pc = "search_index" -> search_index(g, f)
      [] f.pc = "search_map" -> search_map(g, f)
      [] f.pc = "get_documents_view" -> get_documents_view(g, f)
      [] f.pc = "stats_read" -> stats_read(g, f)
      [] f.pc = "health_reply" -> health_reply(g, f)
      [] f.pc = "clear_new_index" -> clear_new_index(g, f)
      [] f.pc = "clear_new_state" -> clear_new_state(g, f)
      [] f.pc = "delete_check" -> delete_check(g, f)
      [] f.pc = "delete_del_document" -> delete_del_document(g, f)
      [] f.pc = "delete_remove_id" -> delete_remove_id(g, f)
      [] f.pc = "delete_del_vector" -> delete_del_vector(g, f)
      [] f.pc = "delete_new_index" -> delete_new_index(g, f)
      [] f.pc = "delete_gather" -> delete_gather(g, f)
      [] f.pc = "delete_add" -> delete_add(g, f)
      [] f.pc = "save_index" -> save_index(g, f)
      [] f.pc = "save_json" -> save_json(g, f)

\* the handler from f.pc to its return
RECURSIVE Run(_, _)
Run(g, f) ==
    IF f.pc = "done" THEN [g |-> g, f |-> f]
    ELSE LET r == Step(g, f) IN Run(r.g, r.f)

SetGlobals(g) ==
    /\ index' = g.index
    /\ documents' = g.documents
    /\ id_list' = g.id_list
    /\ embeddings' = g.embeddings
    /\ index_file' = g.index_file
    /\ state_file' = g.state_file

(***************************************************************************)
(* Requests.                                                               *)
(***************************************************************************)
RequestIds == Ids \cup {AbsentId}

\* <doc_id> of DELETE /index/document/<doc_id> is a path segment: always a string
PathIds == {id \in Ids : id[1] = "str"}
RequestTexts == Texts \cup {AbsentText}
TopKArgs == {<<>>, <<0>>, <<1>>}

\* a document with its text, one without "text", one without "id"
RequestPayloads == Payloads \cup {[text |-> AbsentText, metadata |-> EmptyMeta]}

BatchEntries ==
    {[id |-> StrA, text |-> "cats", metadata |-> TitledMeta],
     [id |-> Int7, text |-> "dogs", metadata |-> EmptyMeta],
     [id |-> AbsentId, text |-> "cats", metadata |-> EmptyMeta],
     [id |-> Str7, text |-> AbsentText, metadata |-> EmptyMeta]}
BatchRequests == UNION {[1..n -> BatchEntries] : n \in 0..MaxBatch}

AddRequest(id, text, metadata, fail) ==
    NewFrame("add", "add_encode", id, text, metadata, <<>>, AbsentText, <<>>, fail)

BatchRequest(docs, fail) ==
    NewFrame("add_batch", "batch_encode", AbsentId, AbsentText, EmptyMeta, docs, AbsentText, <<>>, fail)

SearchRequest(query, top_k, fail) ==
    NewFrame("search", "search_encode", AbsentId, AbsentText, EmptyMeta, <<>>, query, top_k, fail)

DeleteRequest(id, fail) ==
    NewFrame("delete", "delete_check", id, AbsentText, EmptyMeta, <<>>, AbsentText, <<>>, fail)

ClearRequest(fail) ==
    NewFrame("clear", "clear_new_index", AbsentId, AbsentText, EmptyMeta, <<>>, AbsentText, <<>>, fail)

ReadRequest(op, pc) ==
    NewFrame(op, pc, AbsentId, AbsentText, EmptyMeta, <<>>, AbsentText, <<>>, "none")

Threads == 1..MaxThreads

Init ==
    /\ index = <<>>
    /\ documents = <<>>
    /\ id_list = <<>>
    /\ embeddings = <<>>
    /\ index_file = NoIndexFile
    /\ state_file = NoStateFile
    /\ frames = [t \in Threads |-> IdleFrame]
    /\ resp = Response(IdleFrame)
    /\ failures = 0
    /\ accepted = 0

(***************************************************************************)
(* Spec: one request at a time, each handler from entry to return.         *)
(***************************************************************************)
\* n more rows keep the index and the row-order list within max entries
HasRoom(n, max) == Len(index) + n <= max /\ Len(id_list) + n <= max

\* at most max requests of a run meet a failure of the encoder or of a file write
HandleWithin(f0, max) ==
    LET r == Run(Globals, f0)
    IN /\ r.f.failed => failures < max
       /\ SetGlobals(r.g)
       /\ resp' = Response(r.f)
       /\ failures' = IF r.f.failed THEN failures + 1 ELSE failures
       /\ UNCHANGED <<frames, accepted>>

Handle(f0) == HandleWithin(f0, MaxFailures)

add_document(id, doc, fail) ==
    /\ HasRoom(1, MaxRows)
    /\ Handle(AddRequest(id, doc.text, doc.metadata, fail))

add_documents_batch(docs, fail) ==
    /\ HasRoom(Len(docs), MaxRows)
    /\ Handle(BatchRequest(docs, fail))

search(query, top_k, fail) == 
    /\ Handle(SearchRequest(query, top_k, fail))

get_documents == 
    /\ Handle(ReadRequest("list", "get_documents_view"))

stats == 
    /\ Handle(ReadRequest("stats", "stats_read"))

health == 
    /\ Handle(ReadRequest("health", "health_reply"))

clear_index(fail) == 
    /\ Handle(ClearRequest(fail))

delete_document(id, fail) == 
    /\ Handle(DeleteRequest(id, fail))

\* the process is started again: load_model(), init_faiss()
restart ==
    /\ SetGlobals(init_faiss(Globals))
    /\ resp' = Response(ReadRequest("init", "done"))
    /\ UNCHANGED <<frames, failures, accepted>>

Next ==
    \/ \E id \in RequestIds, doc \in RequestPayloads, fail \in Failures :
          add_document(id, doc, fail)
    \/ \E docs \in BatchRequests, fail \in {"none", "encode", "open_state"} :
          add_documents_batch(docs, fail)
    \/ \E query \in RequestTexts, top_k \in TopKArgs, fail \in {"none", "encode"} :
          search(query, top_k, fail)
    \/ get_documents
    \/ stats
    \/ health
    \/ \E fail \in Failures \ {"encode"} : clear_index(fail)
    \/ \E id \in PathIds, fail \in Failures \ {"encode"} : delete_document(id, fail)
    \/ restart

Spec == Init /\ [][Next]_vars

(***************************************************************************)
(* SpecConc: app.run serves each request on its own thread; the handlers   *)
(* take no lock, so their statements interleave.  One step is one          *)
(* statement of one thread.                                                *)
(***************************************************************************)
ConcRequests ==
    {AddRequest(StrA, "cats", TitledMeta, "none"), AddRequest(Int7, "dogs", EmptyMeta, "none"),
     BatchRequest(<<[id |-> Int7, text |-> "dogs", metadata |-> EmptyMeta]>>, "none"),
     SearchRequest("cats", <<>>, "none"),
     DeleteRequest(StrA, "none"),
     ClearRequest("none"),
     ReadRequest("list", "get_documents_view"),
     ReadRequest("stats", "stats_read")}

\* rows the request may still add
PendingRows(f) ==
    CASE f.op = "add" -> 1
      [] f.op = "add_batch" -> Len(f.docs)
      [] OTHER -> 0

RECURSIVE SumPending(_)
SumPending(t) == IF t = 0 THEN 0 ELSE PendingRows(frames[t]) + SumPending(t - 1)

\* a request arrives and is given to an idle thread
accept(t, f0) ==
    /\ frames[t].pc = "idle"
    /\ accepted < MaxRequests
    /\ accepted' = accepted + 1
    /\ HasRoom(SumPending(MaxThreads) + PendingRows(f0), MaxConcRows)
    /\ frames' = [frames EXCEPT ![t] = f0]
    /\ UNCHANGED <<index, documents, id_list, embeddings, index_file, state_file, resp, failures>>

\* thread t runs its next statement; a return sends the response
thread_step(t) ==
    /\ frames[t].pc # "idle"
    /\ LET r == Step(Globals, frames[t])
       IN /\ SetGlobals(r.g)
          /\ IF r.f.pc = "done"
             THEN resp' = Response(r.f) /\ frames' = [frames EXCEPT ![t] = IdleFrame]
             ELSE frames' = [frames EXCEPT ![t] = r.f] /\ UNCHANGED resp
    /\ UNCHANGED <<failures, accepted>>

NextConc ==
    \/ \E t \in Threads, f0 \in ConcRequests : accept(t, f0)
    \/ \E t \in Threads : thread_step(t)

SpecConc == Init /\ [][NextConc]_vars

(***************************************************************************)
(* Properties.                                                             *)
(***************************************************************************)
Mutations == {"add", "add_batch", "delete", "clear"}

GlobalsNext ==
    [index |-> index', documents |-> documents', id_list |-> id_list',
     embeddings |-> embeddings', index_file |-> index_file', state_file |-> state_file']

\* the ids a search answers with, or <<>> when it answers with an error
SearchIds(g, query, top_k) ==
    LET f == Run(g, SearchRequest(query, top_k, "none")).f
    IN [i \in 1..Len(f.results) |-> f.results[i].id]

\* C1: after any sequence of operations the row-order list, the index, the
\* document map and the vector cache all have the same number of entries.
C1_SizesAgree ==
    /\ Len(id_list) = Len(index)
    /\ Len(index) = Len(documents)
    /\ Len(documents) = Len(embeddings)

\* C2: every id of the document map occurs exactly once in the row-order list
\* and has a cached vector, and the row-order list holds no other id.
C2_EachIdOnce ==
    /\ \A id \in DictKeys(documents) : Count(id_list, id) = 1 /\ DictHas(embeddings, id)
    /\ \A i \in 1..Len(id_list) : DictHas(documents, id_list[i])

\* C3: after every mutation, row i of the index holds the vector cached for
\* the i-th id of the row-order list.
C3_RowsMatchCache ==
    resp.op \in Mutations =>
        \A i \in 1..Len(index) :
            /\ i <= Len(id_list)
            /\ DictHas(embeddings, id_list[i])
            /\ index[i] = DictGet(embeddings, id_list[i])

\* C4: an add of an id that is already stored is either rejected or replaces the
\* document in place: the index and the row-order list do not grow and the id
\* does not get a second entry in the row-order list.
C4_DuplicateAddDoesNotGrow ==
    [][\A id \in Ids :
          (resp'.op = "add" /\ resp'.id = id /\ DictHas(documents, id)) =>
              /\ Len(index') <= Len(index)
              /\ Len(id_list') <= Len(id_list)
              /\ Count(id_list', id) <= 1]_vars

\* C5: a mutating operation that ends with an error leaves the index, the
\* document map, the row-order list and the vector cache as they were.
C5_ErrorLeavesMemoryUnchanged ==
    [][(resp'.op \in Mutations /\ resp'.status = 500) =>
          UNCHANGED <<index, documents, id_list, embeddings>>]_vars

BatchIds(docs) == [i \in 1..Len(docs) |-> docs[i].id]

\* C6: a non-empty add-batch either adds every entry, in input order, to the
\* index, the document map, the vector cache and the row-order list, or adds
\* nothing at all.
C6_BatchAllOrNothing ==
    [][\A docs \in BatchRequests \ {<<>>}, fail \in Failures :
          add_documents_batch(docs, fail) =>
              \/ UNCHANGED <<index, documents, id_list, embeddings>>
              \/ /\ Len(index') = Len(index) + Len(docs)
                 /\ id_list' = id_list \o BatchIds(docs)
                 /\ \A i \in 1..Len(docs) :
                       DictHas(documents', docs[i].id) /\ DictHas(embeddings', docs[i].id)]_vars

\* C7: a successful delete of X removes exactly one index row and exactly one
\* entry of the row-order list, keeps the order of the other ids, and afterwards
\* no search answers X and every id a search answers is in the document map.
C7_DeleteRemovesOneRow ==
    [][\A id \in PathIds :
          (resp'.op = "delete" /\ resp'.id = id /\ resp'.status = 200) =>
              /\ Len(index') = Len(index) - 1
              /\ ListHas(id_list, id) /\ id_list' = ListRemove(id_list, id)
              /\ \A query \in Texts, top_k \in TopKArgs :
                    \A i \in 1..Len(SearchIds(GlobalsNext, query, top_k)) :
                        /\ SearchIds(GlobalsNext, query, top_k)[i] # id
                        /\ DictHas(documents', SearchIds(GlobalsNext, query, top_k)[i])]_vars

\* program points of a mutating handler after its first write to the shared
\* structures and before its return
MidMutation ==
    {"add_put_document", "add_append_id", "add_cache_vector",
     "batch_put_document", "batch_append_id", "batch_cache_vector", "batch_return",
     "clear_new_state", "delete_remove_id", "delete_del_vector", "delete_new_index",
     "delete_gather", "delete_add", "save_index", "save_json"}

\* C8: mutating requests are serialized: no two threads are in the middle of
\* a mutation at the same time.
C8_MutationsSerialized ==
    \A t1 \in Threads, t2 \in Threads :
        (frames[t1].pc \in MidMutation /\ frames[t2].pc \in MidMutation) => t1 = t2

\* program points at which a read handler is about to read the shared structures
ReadPoints == {"search_ntotal", "search_index", "search_map", "get_documents_view", "stats_read"}

\* C9: a read running beside a mutation only observes the index and the
\* row-order list of equal length with every row belonging to its id.
C9_ReadersSeeConsistentState ==
    \A t \in Threads :
        frames[t].pc \in ReadPoints =>
            /\ Len(id_list) = Len(index)
            /\ \A i \in 1..Len(index) :
                  /\ DictHas(embeddings, id_list[i])
                  /\ index[i] = DictGet(embeddings, id_list[i])

\* C10: after every successful add, non-empty add-batch, delete or clear, loading
\* the two files yields the index, document map, row-order list and vector
\* cache that are in memory.
C10_ReloadReproducesMemory ==
    (resp.op \in Mutations /\ resp.status = 200 /\ (resp.op = "add_batch" => resp.added > 0)) =>
        LET g == init_faiss(Globals)
        IN /\ g.index = index
           /\ g.documents = documents
           /\ g.id_list = id_list
           /\ g.embeddings = embeddings

FilesLoadable ==
    index_file.exists /\ state_file.exists /\ index_file.ok /\ state_file.ok

\* C11: right after startup, either both files existed and loaded and the index
\* and the state are the ones of the files, or the index, the document map, the
\* row-order list and the vector cache are all empty.
C11_LoadAllOrEmpty ==
    resp.op = "init" =>
        IF FilesLoadable
        THEN /\ index = index_file.rows
             /\ documents = JsonLoadDict(state_file.json.documents)
             /\ id_list = state_file.json.id_list
             /\ embeddings = JsonLoadDict(state_file.json.embeddings)
        ELSE index = <<>> /\ documents = <<>> /\ id_list = <<>> /\ embeddings = <<>>

\* startup read a non-empty index file and then failed on the state file
C11_Witness ==
    /\ resp.op = "init"
    /\ index_file.exists /\ index_file.ok /\ index_file.rows # <<>>
    /\ state_file.exists /\ ~state_file.ok
    /\ index = <<>>

\* the handler returned the given status, left the index, the document map, the
\* row-order list, the vector cache and both files as they were, and no call of
\* the encoder or of save_state had the occasion to fail
Untouched(r, status) == r.g = Globals /\ r.f.status = status /\ ~r.f.failed

\* C12: an add without id or text and a search without query are answered 400,
\* a delete of an id that is not in the document map is answered 404; in every
\* reachable state, whatever the encoder or the file system would do, such a
\* request leaves the index, the document map, the row-order list, the vector
\* cache and both files as they were, and neither the encoder nor save_state
\* runs (no failure of theirs can happen).
C12_RejectedChangesNothing ==
    /\ \A id \in RequestIds, doc \in RequestPayloads, fail \in Failures :
          (id = AbsentId \/ doc.text = AbsentText)
              => Untouched(Run(Globals, AddRequest(id, doc.text, doc.metadata, fail)), 400)
    /\ \A top_k \in TopKArgs, fail \in Failures :
          Untouched(Run(Globals, SearchRequest(AbsentText, top_k, fail)), 400)
    /\ \A id \in PathIds, fail \in Failures :
          ~DictHas(documents, id)
              => Untouched(Run(Globals, DeleteRequest(id, fail)), 404)

\* a delete of an unknown id was refused while documents are indexed
C12_Witness ==
    resp.op = "delete" /\ resp.status = 404 /\ documents # <<>> /\ index_file.exists

\* C13: in every reachable state a batch with an empty (or absent) list of
\* documents is answered 200 with added = 0; whatever the encoder or the file
\* system would do, the index, the document map, the row-order list, the vector
\* cache and both files stay as they were, and neither the encoder nor
\* save_state runs.
C13_EmptyBatchIsNoOp ==
    \A fail \in Failures :
        LET r == Run(Globals, BatchRequest(<<>>, fail))
        IN Untouched(r, 200) /\ r.f.added = 0

\* an empty batch was answered while documents are indexed
C13_Witness ==
    /\ resp.op = "add_batch" /\ resp.status = 200 /\ resp.added = 0
    /\ index # <<>> /\ state_file.exists

\* the rows index.search ranks for a query, nearest first; none on an empty index
RankedRows(query, top_k) ==
    IF index = <<>> THEN <<>>
    ELSE SelectSeq(IndexSearch(index, NormalizeL2(Encode("query: ", query)),
                               TopK([top_k |-> top_k])),
                   LAMBDA h : h.row # -1)

\* C14: in every reachable state a search with a positive top_k succeeds, and
\* its results are, in ranking order, exactly the ranked rows that have an
\* id_list entry whose id is in the document map; rows without an id_list
\* entry and rows whose id has no document are skipped.
C14_SearchSkipsOrphanRows ==
    \A query \in Texts, top_k \in TopKArgs :
        TopK([top_k |-> top_k]) > 0 =>
            LET f == Run(Globals, SearchRequest(query, top_k, "none")).f
                kept == SelectSeq(RankedRows(query, top_k),
                                  LAMBDA h : /\ h.row < Len(id_list)
                                             /\ DictHas(documents, id_list[h.row + 1]))
            IN /\ f.status = 200
               /\ Len(f.results) = Len(kept)
               /\ \A i \in 1..Len(kept) :
                     /\ f.results[i].id = id_list[kept[i].row + 1]
                     /\ f.results[i].score = kept[i].dist

Min(a, b) == IF a <= b THEN a ELSE b

\* C15: in every reachable state a search with a positive top_k k (5 when the
\* request gives none) succeeds with exactly min(k, n) results, n the number of
\* index rows (none on an empty index), in ascending order of distance.
C15_SearchReturnsMinKN ==
    \A query \in Texts, top_k \in TopKArgs :
        TopK([top_k |-> top_k]) > 0 =>
            LET f == Run(Globals, SearchRequest(query, top_k, "none")).f
            IN /\ f.status = 200
               /\ Len(f.results) = Min(TopK([top_k |-> top_k]), Len(index))
               /\ \A i \in 1..Len(f.results) - 1 :
                     f.results[i].score <= f.results[i + 1].score

EmptySnapshot ==
    /\ index_file = [exists |-> TRUE, ok |-> TRUE, rows |-> <<>>]
    /\ state_file = [exists |-> TRUE, ok |-> TRUE, json |-> JsonDump(EmptyState)]

\* C16: right after a clear, from whatever state it was called in, the index,
\* the document map, the row-order list and the vector cache are empty; the two
\* files hold the empty snapshot unless a file write raised during this clear
\* (there is no other way for it to fail); stats reports 0 rows, the document
\* list is empty and every search succeeds with no results.
C16_ClearEmptiesEverything ==
    resp.op = "clear" =>
        /\ index = <<>> /\ documents = <<>> /\ id_list = <<>> /\ embeddings = <<>>
        /\ resp.status = 200 \/ failures > 0
        /\ resp.status = 200 => EmptySnapshot
        /\ Run(Globals, ReadRequest("stats", "stats_read")).f.total = 0
        /\ Run(Globals, ReadRequest("list", "get_documents_view")).f.results = <<>>
        /\ \A query \in Texts, top_k \in TopKArgs :
              LET f == Run(Globals, SearchRequest(query, top_k, "none")).f
              IN f.status = 200 /\ f.results = <<>>

\* a clear succeeded and wrote the empty snapshot over an earlier failed write
C16_Witness ==
    resp.op = "clear" /\ resp.status = 200 /\ failures > 0 /\ EmptySnapshot

(***************************************************************************)
(* SpecPersist: one request at a time, every request well formed, no id    *)
(* added while it is present, so that memory stays consistent; the file    *)
(* writes of save_state may fail, and the process may be restarted.        *)
(***************************************************************************)
WriteFailures == {"write_index", "open_state", "dump_state"}

WellFormedEntries ==
    {[id |-> id, text |-> doc.text, metadata |-> doc.metadata] :
        id \in PathIds, doc \in Payloads}

\* every entry has a text and an id that is neither present nor repeated
FreshBatch(docs) ==
    \A i \in 1..Len(docs) :
        /\ docs[i].text # AbsentText
        /\ docs[i].id # AbsentId
        /\ ~DictHas(documents, docs[i].id)
        /\ \A j \in 1..Len(docs) : j # i => docs[j].id # docs[i].id

FreshBatches ==
    {docs \in UNION {[1..n -> WellFormedEntries] : n \in 1..MaxBatch} : FreshBatch(docs)}

persist_add(id, doc, fail) ==
    /\ ~DictHas(documents, id)
    /\ HandleWithin(AddRequest(id, doc.text, doc.metadata, fail), MaxWriteFailures)

persist_batch(docs, fail) ==
    /\ FreshBatch(docs)
    /\ HandleWithin(BatchRequest(docs, fail), MaxWriteFailures)

persist_delete(id, fail) ==
    /\ DictHas(documents, id)
    /\ HandleWithin(DeleteRequest(id, fail), MaxWriteFailures)

NextPersist ==
    \/ \E id \in PathIds, doc \in Payloads, fail \in WriteFailures \cup {"none"} :
          persist_add(id, doc, fail)
    \/ \E docs \in FreshBatches, fail \in WriteFailures \cup {"none"} :
          persist_batch(docs, fail)
    \/ \E id \in PathIds, fail \in WriteFailures \cup {"none"} :
          persist_delete(id, fail)
    \/ restart

SpecPersist == Init /\ [][NextPersist]_vars

\* the requests that change memory in the current state
PersistRequests(fail) ==
    {AddRequest(id, doc.text, doc.metadata, fail) :
        id \in {i \in PathIds : ~DictHas(documents, i)}, doc \in Payloads}
    \cup {BatchRequest(docs, fail) : docs \in FreshBatches}
    \cup {DeleteRequest(id, fail) : id \in {i \in PathIds : DictHas(documents, i)}}

Memory(g) ==
    [index |-> g.index, documents |-> g.documents, id_list |-> g.id_list,
     embeddings |-> g.embeddings]

\* the two files are what save_state writes for the memory of g
SnapshotIsMemory(g) ==
    /\ g.index_file = [exists |-> TRUE, ok |-> TRUE, rows |-> g.index]
    /\ g.state_file = [exists |-> TRUE, ok |-> TRUE,
                       json |-> JsonDump([documents |-> g.documents,
                                          id_list |-> g.id_list,
                                          embeddings |-> g.embeddings])]

\* the request f, met by the write failure fail, is answered 500 and leaves the
\* memory that f leaves when its writes succeed, which is not the memory before
KeptWithoutRollback(f, fail) ==
    LET bad == Run(Globals, [f EXCEPT !.fail = fail])
        ok == Run(Globals, f)
    IN /\ ok.f.status = 200
       /\ bad.f.status = 500
       /\ Memory(bad.g) = Memory(ok.g)
       /\ Memory(bad.g) # Memory(Globals)

C20_SnapshotLoadsConsistent ==
    LET g == init_faiss(Globals)
        ids == {g.id_list[i] : i \in 1..Len(g.id_list)}
    IN /\ Len(g.index) = Len(g.id_list)
       /\ DictKeys(g.documents) = ids
       /\ DictKeys(g.embeddings) = ids

\* the ids the document list answers with
ListedIds ==
    LET f == Run(Globals, ReadRequest("list", "get_documents_view")).f
    IN [i \in 1..Len(f.results) |-> f.results[i].id]

\* C18: in every reachable state the ids of the document list, in the order
\* the list gives them, are the row-order list id_list.
C18_ListFollowsRowOrder == ListedIds = id_list

(***************************************************************************)
(* SpecFresh: one request at a time, the encoder and the file writes never *)
(* fail, and no add or batch supplies an id that is present in the         *)
(* document map or twice in one batch.                                     *)
(***************************************************************************)
\* no entry supplies an id that is present or that another entry supplies
SuppliesFreshIds(docs) ==
    \A i \in 1..Len(docs) :
        docs[i].id # AbsentId =>
            /\ ~DictHas(documents, docs[i].id)
            /\ \A j \in 1..Len(docs) : j # i => docs[j].id # docs[i].id

fresh_add(id, doc) ==
    /\ ~DictHas(documents, id)
    /\ add_document(id, doc, "none")

fresh_batch(docs) ==
    /\ SuppliesFreshIds(docs)
    /\ add_documents_batch(docs, "none")

NextFresh ==
    \/ \E id \in RequestIds, doc \in RequestPayloads : fresh_add(id, doc)
    \/ \E docs \in BatchRequests : fresh_batch(docs)
    \/ \E query \in RequestTexts, top_k \in TopKArgs : search(query, top_k, "none")
    \/ get_documents
    \/ stats
    \/ health
    \/ clear_index("none")
    \/ \E id \in PathIds : delete_document(id, "none")

SpecFresh == Init /\ [][NextFresh]_vars

\* C19: in every state reachable by sequential requests without failures and
\* without an id supplied while present or twice in a batch, the index, the
\* row-order list, the document map and the vector cache have the same size,
\* each id of the document map is once in the row-order list, and index row i
\* is the cached vector of the i-th id of the row-order list.
C19_FreshIdsKeepInvariants ==
    /\ Len(index) = Len(id_list)
    /\ Len(documents) = Len(id_list)
    /\ Len(embeddings) = Len(id_list)
    /\ \A id \in DictKeys(documents) : Count(id_list, id) = 1
    /\ \A i \in 1..Len(id_list) :
          /\ DictHas(documents, id_list[i])
          /\ DictHas(embeddings, id_list[i])
          /\ i <= Len(index)
          /\ index[i] = DictGet(embeddings, id_list[i])

====
